---- MODULE Spec2Model ----
(***************************************************************************)
(* Checkout settlement of the bookstore backend (src/main.py): cart,       *)
(* voucher evaluation, order creation with stock and voucher counters,     *)
(* cancellation.  Every request works in its own SQLAlchemy session on a   *)
(* PostgreSQL database: it reads committed rows into the session, changes  *)
(* the loaded objects in memory and writes the changed columns back, as    *)
(* absolute values, when it commits.  Money is counted in hundredths       *)
(* (the Decimal(10, 2) columns of src/models.py).                          *)
(***************************************************************************)
EXTENDS Integers, FiniteSets, Sequences, TLC

\* ---------------------------------------------------------------- bounds
MaxOrders == 2
MaxCartRows == 2
MaxQty == 1

\* the shoppers; the account after them is the administrator
Users == {1, 2}
Accounts == Users \cup {3}
\* the workers that serve requests, each with its own session
Procs == {1, 2}
Books == {1, 2}
VoucherIds == {1}

\* ------------------------------------------------------ optional values
None == <<>>
Some(x) == <<x>>
IsNone(o) == o = <<>>
Val(o) == o[1]

Min(a, b) == IF a <= b THEN a ELSE b

\* round(n / d) to the nearest integer, ties to the even one
RoundDiv(n, d) ==
  LET q == n \div d
      r == n % d
  IN  IF 2 * r < d THEN q
      ELSE IF 2 * r > d THEN q + 1
      ELSE IF q % 2 = 0 THEN q ELSE q + 1

\* a percentage that drops the fraction of a hundredth instead of rounding
PercentTruncated(amount, value) ==
  (amount \div 10000) * value + ((amount % 10000) * value) \div 10000

\* amount * value / 100 for two numbers held in hundredths, rounded to a
\* hundredth; the whole ten-thousands of amount are multiplied exactly
PercentOf(amount, value) ==
  (amount \div 10000) * value + RoundDiv((amount % 10000) * value, 10000)

\* sum of f[x] over the elements x of S
RECURSIVE SumOver(_, _)
SumOver(S, f) ==
  IF S = {} THEN 0
  ELSE LET x == CHOOSE y \in S : TRUE
       IN  f[x] + SumOver(S \ {x}, f)

\* ------------------------------------------------------------- responses
ReasonInactive == "Voucher khong hoat dong"
ReasonWindow == "Voucher khong nam trong thoi gian ap dung"
ReasonUsageLimit == "Voucher da het luot su dung"
ReasonUserLimit == "Ban da dung het so lan cho voucher nay"
ReasonMinOrder == "Chua dat gia tri don toi thieu"
ReasonNoEligible == "Khong co san pham phu hop dieu kien voucher"
ReasonBadType == "Loai voucher khong hop le"

Result(ok, reason, discount_amount, shipping_discount) ==
  [ok |-> ok, reason |-> reason, discount_amount |-> discount_amount,
   shipping_discount |-> shipping_discount]

\* -------------------------------------------------- voucher evaluation
\* cart_items: cart rows; bk: the book rows they are joined with;
\* usage: the voucher_usage rows the count query sees; t: utcnow()
LinePrice(bk, ci) == bk[ci.book_id].price * ci.quantity

Subtotal(bk, cart_items) ==
  SumOver(cart_items, [ci \in cart_items |-> LinePrice(bk, ci)])

Excluded(voucher, book) ==
  \/ book.id \in voucher.excluded_books
  \/ (book.category_id # 0 /\ book.category_id \in voucher.excluded_categories)

\* an inclusion test that looks at the list of books only
HasInclusionBooksOnly(voucher) == voucher.applicable_books # {}

HasInclusion(voucher) ==
  voucher.applicable_books # {} \/ voucher.applicable_categories # {}

Allowed(voucher, book) ==
  \/ book.id \in voucher.applicable_books
  \/ (book.category_id # 0 /\ book.category_id \in voucher.applicable_categories)

\* a filter in which an inclusion list, when there is one, decides alone
EligibleInclusionWins(voucher, book) ==
  IF HasInclusion(voucher) THEN Allowed(voucher, book) ELSE ~Excluded(voucher, book)

Eligible(voucher, book) ==
  /\ ~Excluded(voucher, book)
  /\ HasInclusion(voucher) => Allowed(voucher, book)

EligibleAmount(voucher, bk, cart_items) ==
  SumOver({ci \in cart_items : Eligible(voucher, bk[ci.book_id])},
          [ci \in cart_items |-> LinePrice(bk, ci)])

\* a discount on which max_discount_amount has no effect
CapIgnored(voucher, amount) == amount

CapDiscount(voucher, amount) ==
  IF ~IsNone(voucher.max_discount_amount) /\ Val(voucher.max_discount_amount) # 0
  THEN Min(amount, Val(voucher.max_discount_amount))
  ELSE amount

UserUsed(usage, voucher_id, user_id) ==
  Cardinality({vu \in usage : vu.voucher_id = voucher_id /\ vu.user_id = user_id})

\* an evaluation that looks at the minimum order amount before the limits
ComputeVoucherMinOrderFirst(voucher, user_id, cart_items, subtotal, shipping_fee, bk, usage, t) ==
  LET eligible_amount == EligibleAmount(voucher, bk, cart_items)
  IN
  IF ~voucher.is_active
  THEN Result(FALSE, ReasonInactive, 0, 0)
  ELSE IF t < voucher.start_date \/ t > voucher.end_date
  THEN Result(FALSE, ReasonWindow, 0, 0)
  ELSE IF voucher.min_order_amount # 0 /\ subtotal < voucher.min_order_amount
  THEN Result(FALSE, ReasonMinOrder, 0, 0)
  ELSE IF ~IsNone(voucher.usage_limit) /\ voucher.used_count >= Val(voucher.usage_limit)
  THEN Result(FALSE, ReasonUsageLimit, 0, 0)
  ELSE IF /\ ~IsNone(voucher.user_limit) /\ Val(voucher.user_limit) > 0
          /\ UserUsed(usage, voucher.id, user_id) >= Val(voucher.user_limit)
  THEN Result(FALSE, ReasonUserLimit, 0, 0)
  ELSE IF HasInclusion(voucher) /\ eligible_amount <= 0
  THEN Result(FALSE, ReasonNoEligible, 0, 0)
  ELSE IF voucher.discount_type = "percentage"
  THEN Result(TRUE, "OK", CapDiscount(voucher, PercentOf(eligible_amount, voucher.discount_value)), 0)
  ELSE IF voucher.discount_type = "fixed_amount"
  THEN Result(TRUE, "OK", CapDiscount(voucher, Min(voucher.discount_value, eligible_amount)), 0)
  ELSE IF voucher.discount_type = "free_shipping"
  THEN Result(TRUE, "OK", 0, CapDiscount(voucher, shipping_fee))
  ELSE Result(FALSE, ReasonBadType, 0, 0)

ComputeVoucherForCart(voucher, user_id, cart_items, subtotal, shipping_fee, bk, usage, t) ==
  LET eligible_amount == EligibleAmount(voucher, bk, cart_items)
  IN
  IF ~voucher.is_active
  THEN Result(FALSE, ReasonInactive, 0, 0)
  ELSE IF t < voucher.start_date \/ t > voucher.end_date
  THEN Result(FALSE, ReasonWindow, 0, 0)
  ELSE IF ~IsNone(voucher.usage_limit) /\ voucher.used_count >= Val(voucher.usage_limit)
  THEN Result(FALSE, ReasonUsageLimit, 0, 0)
  ELSE IF /\ ~IsNone(voucher.user_limit) /\ Val(voucher.user_limit) > 0
          /\ UserUsed(usage, voucher.id, user_id) >= Val(voucher.user_limit)
  THEN Result(FALSE, ReasonUserLimit, 0, 0)
  ELSE IF voucher.min_order_amount # 0 /\ subtotal < voucher.min_order_amount
  THEN Result(FALSE, ReasonMinOrder, 0, 0)
  ELSE IF HasInclusion(voucher) /\ eligible_amount <= 0
  THEN Result(FALSE, ReasonNoEligible, 0, 0)
  ELSE IF voucher.discount_type = "percentage"
  THEN Result(TRUE, "OK", CapDiscount(voucher, PercentOf(eligible_amount, voucher.discount_value)), 0)
  ELSE IF voucher.discount_type = "fixed_amount"
  THEN Result(TRUE, "OK", CapDiscount(voucher, Min(voucher.discount_value, eligible_amount)), 0)
  ELSE IF voucher.discount_type = "free_shipping"
  THEN Result(TRUE, "OK", 0, CapDiscount(voucher, shipping_fee))
  ELSE Result(FALSE, ReasonBadType, 0, 0)

\* ------------------------------------------------------------------ state
VARIABLES
  books,          \* books rows: id -> [id, price, category_id, stock_quantity, sold_quantity]
  cart_items,     \* cart_items rows [id, user_id, book_id, quantity]
  vouchers,       \* vouchers rows: id -> voucher
  voucher_usage,  \* voucher_usage rows [voucher_id, user_id, order_id, discount_amount]
  orders,         \* orders rows, each with its order_items
  next_cart_id,   \* cart_items.id sequence
  next_order_id,  \* orders.id sequence
  sess,           \* per worker: the open session of a checkout between its reads and its commit
  last,           \* the response of the step just taken
  now             \* datetime.utcnow()

dbvars == <<books, cart_items, vouchers, voucher_usage, orders>>
vars == <<books, cart_items, vouchers, voucher_usage, orders, next_cart_id,
          next_order_id, sess, last, now>>

Role(account) == IF account \in Users THEN "user" ELSE "admin"

Upper(code) == IF code = "sale" THEN "SALE" ELSE code
Codes == {"sale", "NOPE"}

Response(op, status, detail) ==
  [op |-> op, status |-> status, detail |-> detail]

IdleSession ==
  [pc |-> "idle", op |-> "", user_id |-> 0, new_order |-> <<>>,
   book_writes |-> <<>>, cart_deletes |-> {}, usage_row |-> None,
   voucher_write |-> None]

\* the row create_voucher stores: used_count starts at 0
VoucherRow(id, code, usage_limit, user_limit, discount_type, discount_value) ==
  [id |-> id, code |-> code, is_active |-> TRUE, start_date |-> 0, end_date |-> 0,
   usage_limit |-> usage_limit, used_count |-> 0, user_limit |-> user_limit,
   min_order_amount |-> 0, max_discount_amount |-> None,
   discount_type |-> discount_type, discount_value |-> discount_value,
   applicable_categories |-> {}, applicable_books |-> {},
   excluded_categories |-> {}, excluded_books |-> {}]

\* one voucher of 10 percent, usable once in all and once per user
InitVouchers ==
  [i \in VoucherIds |-> VoucherRow(i, "SALE", Some(1), Some(1), "percentage", 1000)]

InitBooks ==
  [b \in Books |->
     [id |-> b, price |-> IF b = 1 THEN 10000 ELSE 5000, category_id |-> b,
      stock_quantity |-> IF b = 1 THEN 1 ELSE 2, sold_quantity |-> 0]]

Init ==
  /\ books = InitBooks
  /\ cart_items = {}
  /\ vouchers = InitVouchers
  /\ voucher_usage = {}
  /\ orders = {}
  /\ next_cart_id = 1
  /\ next_order_id = 1
  /\ sess = [p \in Procs |-> IdleSession]
  /\ last = Response("", 0, <<>>)
  /\ now = 0

\* ------------------------------------------------------------------ cart
AddToCart(current_user, user_id, book_id, quantity) ==
  LET existing == {ci \in cart_items : ci.user_id = user_id /\ ci.book_id = book_id}
  IN
  /\ UNCHANGED <<books, vouchers, voucher_usage, orders, next_order_id, sess, now>>
  /\ IF current_user # user_id
     THEN /\ last' = Response("add_to_cart", 403, <<"Not authorized to modify this cart">>)
          /\ UNCHANGED <<cart_items, next_cart_id>>
     ELSE IF book_id \notin DOMAIN books
     THEN /\ last' = Response("add_to_cart", 404, <<"Book not found">>)
          /\ UNCHANGED <<cart_items, next_cart_id>>
     ELSE IF books[book_id].stock_quantity < quantity
     THEN /\ last' = Response("add_to_cart", 400, <<"Not enough stock">>)
          /\ UNCHANGED <<cart_items, next_cart_id>>
     ELSE IF existing # {}
     THEN /\ \A ci \in existing : ci.quantity + quantity <= MaxQty
          /\ cart_items' = {IF ci \in existing
                            THEN [ci EXCEPT !.quantity = ci.quantity + quantity]
                            ELSE ci : ci \in cart_items}
          /\ last' = Response("add_to_cart", 200, <<"Added to cart successfully">>)
          /\ UNCHANGED next_cart_id
     ELSE /\ next_cart_id <= MaxCartRows
          /\ cart_items' = cart_items \cup
               {[id |-> next_cart_id, user_id |-> user_id, book_id |-> book_id,
                 quantity |-> quantity]}
          /\ next_cart_id' = next_cart_id + 1
          /\ last' = Response("add_to_cart", 200, <<"Added to cart successfully">>)

\* -------------------------------------------------------------- checkout
\* create_order names its voucher by id, create_simple_order by code
FindVoucher(op, ref, vch) ==
  IF op = "create_order"
  THEN {vch[i] : i \in {j \in DOMAIN vch : vch[j].id = Val(ref)}}
  ELSE {vch[i] : i \in {j \in DOMAIN vch : vch[j].code = Upper(Val(ref))}}

\* an HTTPException raised inside the try block of create_simple_order is
\* caught by its own "except Exception" and leaves as a 500
Raise(op, status, detail) ==
  IF op = "create_simple_order"
  THEN Response(op, 500, <<"Error creating order", ToString(status)>> \o detail)
  ELSE Response(op, status, detail)

\* whether the stock update of one cart line is made
TakesStock(op, book, quantity) ==
  IF op = "create_simple_order" THEN book.stock_quantity >= quantity ELSE TRUE

\* order lines written only for the cart lines whose book has the stock
OrderItemsInStock(bk, cart) ==
  {[book_id |-> ci.book_id, quantity |-> ci.quantity,
    unit_price |-> bk[ci.book_id].price,
    total_price |-> bk[ci.book_id].price * ci.quantity] :
     ci \in {c \in cart : bk[c.book_id].stock_quantity >= c.quantity}}

OrderItems(bk, cart) ==
  {[book_id |-> ci.book_id, quantity |-> ci.quantity,
    unit_price |-> bk[ci.book_id].price,
    total_price |-> bk[ci.book_id].price * ci.quantity] : ci \in cart}

\* the new values of the loaded books, written when the session is flushed
\* stock updates that leave sold_quantity as it was read
BookWritesStockOnly(op, bk, cart) ==
  [b \in {ci.book_id : ci \in {c \in cart : TakesStock(op, bk[c.book_id], c.quantity)}} |->
     LET ci == CHOOSE c \in cart : c.book_id = b
     IN  [stock_quantity |-> bk[b].stock_quantity - ci.quantity,
          sold_quantity |-> bk[b].sold_quantity]]

BookWrites(op, bk, cart) ==
  [b \in {ci.book_id : ci \in {c \in cart : TakesStock(op, bk[c.book_id], c.quantity)}} |->
     LET ci == CHOOSE c \in cart : c.book_id = b
     IN  [stock_quantity |-> bk[b].stock_quantity - ci.quantity,
          sold_quantity |-> bk[b].sold_quantity + ci.quantity]]

\* an order total that leaves the discounts out
TotalAmountBeforeDiscount(subtotal, shipping_fee, discount_amount, shipping_discount) ==
  subtotal + shipping_fee

TotalAmount(subtotal, shipping_fee, discount_amount, shipping_discount) ==
  subtotal + shipping_fee - discount_amount - shipping_discount

\* the session a checkout has built when it reaches db.commit()
BuildSession(op, user_id, cart, bk, applied, res, order_id) ==
  LET subtotal == Subtotal(bk, cart)
      shipping_fee == 0
      discount == res.discount_amount + res.shipping_discount
  IN [pc |-> "in_txn", op |-> op, user_id |-> user_id,
      new_order |->
        [id |-> order_id, user_id |-> user_id, status |-> "pending",
         payment_status |-> "pending", subtotal |-> subtotal,
         shipping_fee |-> shipping_fee, discount_amount |-> discount,
         total_amount |-> TotalAmount(subtotal, shipping_fee, res.discount_amount,
                                      res.shipping_discount),
         voucher_id |-> IF applied = {} THEN None
                        ELSE Some((CHOOSE v \in applied : TRUE).id),
         order_items |-> OrderItems(bk, cart),
         shipped_at |-> None, delivered_at |-> None, cancelled_at |-> None],
      book_writes |-> BookWrites(op, bk, cart),
      cart_deletes |-> {ci.id : ci \in cart},
      usage_row |->
        IF applied = {} THEN None
        ELSE Some([voucher_id |-> (CHOOSE v \in applied : TRUE).id, user_id |-> user_id,
                   order_id |-> order_id, discount_amount |-> discount]),
      voucher_write |->
        IF applied = {} THEN None
        ELSE Some([id |-> (CHOOSE v \in applied : TRUE).id,
                   used_count |-> (CHOOSE v \in applied : TRUE).used_count + 1])]

\* the handler up to db.commit(): either a rejection or the built session
Prepare(op, user_id, ref, bk, all_cart, vch, usage, t, order_id) ==
  LET cart == {ci \in all_cart : ci.user_id = user_id}
      subtotal == Subtotal(bk, cart)
      found == IF IsNone(ref) THEN {} ELSE FindVoucher(op, ref, vch)
      res == IF found = {} THEN Result(TRUE, "OK", 0, 0)
             ELSE ComputeVoucherForCart(CHOOSE v \in found : TRUE, user_id, cart,
                                        subtotal, 0, bk, usage, t)
  IN
  IF cart = {}
  THEN [ok |-> FALSE, response |-> Raise(op, 400, <<"Cart is empty">>), session |-> IdleSession]
  ELSE IF ~IsNone(ref) /\ found = {}
  THEN [ok |-> FALSE, response |-> Raise(op, 400, <<"Voucher khong ton tai">>), session |-> IdleSession]
  ELSE IF ~res.ok
  THEN [ok |-> FALSE,
        response |-> Raise(op, 400, <<"Khong ap dung duoc voucher", res.reason>>),
        session |-> IdleSession]
  ELSE [ok |-> TRUE, response |-> Response(op, 0, <<>>),
        session |-> BuildSession(op, user_id, cart, bk, found, res, order_id)]

\* the workers are alike: a request goes to the first free one
FreeWorker(p) ==
  /\ sess[p].pc = "idle"
  /\ \A q \in Procs : q < p => sess[q].pc # "idle"

BeginCheckout(p, op, current_user, user_id, ref) ==
  /\ FreeWorker(p)
  /\ UNCHANGED <<books, cart_items, vouchers, voucher_usage, orders, next_cart_id, now>>
  /\ IF current_user # user_id
     THEN /\ last' = Response(op, 403, <<"Not authorized to create order for another user">>)
          /\ UNCHANGED <<sess, next_order_id>>
     ELSE LET plan == Prepare(op, user_id, ref, books, cart_items, vouchers,
                              voucher_usage, now, next_order_id)
          IN  IF plan.ok
              THEN /\ next_order_id <= MaxOrders
                   /\ sess' = [sess EXCEPT ![p] = plan.session]
                   /\ next_order_id' = next_order_id + 1
                   /\ last' = plan.response
              ELSE /\ last' = plan.response
                   /\ UNCHANGED <<sess, next_order_id>>

CreateOrder(p, current_user, user_id, voucher_id) ==
  BeginCheckout(p, "create_order", current_user, user_id, voucher_id)

CreateSimpleOrder(p, current_user, user_id, voucher_code) ==
  BeginCheckout(p, "create_simple_order", current_user, user_id, voucher_code)

\* a commit whose cart clearing is not held to the rows the session loaded
CommitClearingAllCarts(p) ==
  LET s == sess[p]
  IN
  /\ orders' = orders \cup {s.new_order}
  /\ books' = [b \in DOMAIN books |->
                 IF b \in DOMAIN s.book_writes
                 THEN [books[b] EXCEPT !.stock_quantity = s.book_writes[b].stock_quantity,
                                       !.sold_quantity = s.book_writes[b].sold_quantity]
                 ELSE books[b]]
  /\ cart_items' = {}
  /\ voucher_usage' = IF IsNone(s.usage_row) THEN voucher_usage
                      ELSE voucher_usage \cup {Val(s.usage_row)}
  /\ vouchers' = [i \in DOMAIN vouchers |->
                    IF ~IsNone(s.voucher_write) /\ Val(s.voucher_write).id = vouchers[i].id
                    THEN [vouchers[i] EXCEPT !.used_count = Val(s.voucher_write).used_count]
                    ELSE vouchers[i]]

\* db.commit(): the flush writes the unit of work; a failure rolls it back
Commit(p) ==
  LET s == sess[p]
  IN
  /\ orders' = orders \cup {s.new_order}
  /\ books' = [b \in DOMAIN books |->
                 IF b \in DOMAIN s.book_writes
                 THEN [books[b] EXCEPT !.stock_quantity = s.book_writes[b].stock_quantity,
                                       !.sold_quantity = s.book_writes[b].sold_quantity]
                 ELSE books[b]]
  /\ cart_items' = {ci \in cart_items : ci.id \notin s.cart_deletes}
  /\ voucher_usage' = IF IsNone(s.usage_row) THEN voucher_usage
                      ELSE voucher_usage \cup {Val(s.usage_row)}
  /\ vouchers' = [i \in DOMAIN vouchers |->
                    IF ~IsNone(s.voucher_write) /\ Val(s.voucher_write).id = vouchers[i].id
                    THEN [vouchers[i] EXCEPT !.used_count = Val(s.voucher_write).used_count]
                    ELSE vouchers[i]]

\* a rollback that loses the order row flushed before the failure
RollbackKeepsFlushedOrder(p) ==
  /\ orders' = orders \cup {sess[p].new_order}
  /\ UNCHANGED <<books, cart_items, vouchers, voucher_usage>>

\* db.rollback(): nothing the session has written stays
Rollback(p) == UNCHANGED dbvars

FinishCheckout(p, ok) ==
  /\ sess[p].pc = "in_txn"
  /\ sess' = [sess EXCEPT ![p] = IdleSession]
  /\ UNCHANGED <<next_cart_id, next_order_id, now>>
  /\ IF ok
     THEN /\ Commit(p)
          /\ last' = Response(sess[p].op, 200, <<"Order created successfully">>)
     ELSE /\ Rollback(p)
          /\ last' = Response(sess[p].op, 500, <<"Error creating order">>)

\* ---------------------------------------------------------- cancellation
\* a cancellation that also gives the voucher use of the order back
CancelOrderReturningUse(current_user, order_id) ==
  LET found == {o \in orders : o.id = order_id}
      order == CHOOSE o \in found : TRUE
  IN
  /\ UNCHANGED <<cart_items, next_cart_id, next_order_id, sess, now>>
  /\ IF found = {}
     THEN /\ last' = Response("cancel_order", 404, <<"Order not found">>)
          /\ UNCHANGED <<books, orders, vouchers, voucher_usage>>
     ELSE IF order.user_id # current_user /\ Role(current_user) # "admin"
     THEN /\ last' = Response("cancel_order", 403, <<"Not authorized to cancel this order">>)
          /\ UNCHANGED <<books, orders, vouchers, voucher_usage>>
     ELSE IF order.status \in {"delivered", "cancelled"}
     THEN /\ last' = Response("cancel_order", 400, <<"Order cannot be cancelled">>)
          /\ UNCHANGED <<books, orders, vouchers, voucher_usage>>
     ELSE /\ orders' = (orders \ {order}) \cup
                         {[order EXCEPT !.status = "cancelled", !.cancelled_at = Some(now)]}
          /\ books' = [b \in DOMAIN books |->
                         LET items == {it \in order.order_items : it.book_id = b}
                             qty == SumOver(items, [it \in items |-> it.quantity])
                         IN  [books[b] EXCEPT !.stock_quantity = @ + qty,
                                              !.sold_quantity = @ - qty]]
          /\ voucher_usage' = {vu \in voucher_usage : vu.order_id # order.id}
          /\ vouchers' = [i \in DOMAIN vouchers |->
                            IF order.voucher_id = Some(vouchers[i].id)
                            THEN [vouchers[i] EXCEPT !.used_count = @ - 1]
                            ELSE vouchers[i]]
          /\ last' = Response("cancel_order", 200, <<"Order cancelled successfully">>)

\* a cancellation that refuses only orders already cancelled
CancelOrderUnlessCancelled(current_user, order_id) ==
  LET found == {o \in orders : o.id = order_id}
      order == CHOOSE o \in found : TRUE
  IN
  /\ UNCHANGED <<cart_items, vouchers, voucher_usage, next_cart_id, next_order_id, sess, now>>
  /\ IF found = {}
     THEN /\ last' = Response("cancel_order", 404, <<"Order not found">>)
          /\ UNCHANGED <<books, orders>>
     ELSE IF order.user_id # current_user /\ Role(current_user) # "admin"
     THEN /\ last' = Response("cancel_order", 403, <<"Not authorized to cancel this order">>)
          /\ UNCHANGED <<books, orders>>
     ELSE IF order.status \in {"cancelled"}
     THEN /\ last' = Response("cancel_order", 400, <<"Order cannot be cancelled">>)
          /\ UNCHANGED <<books, orders>>
     ELSE /\ orders' = (orders \ {order}) \cup
                         {[order EXCEPT !.status = "cancelled", !.cancelled_at = Some(now)]}
          /\ books' = [b \in DOMAIN books |->
                         LET items == {it \in order.order_items : it.book_id = b}
                             qty == SumOver(items, [it \in items |-> it.quantity])
                         IN  [books[b] EXCEPT !.stock_quantity = @ + qty,
                                              !.sold_quantity = @ - qty]]
          /\ last' = Response("cancel_order", 200, <<"Order cancelled successfully">>)

CancelOrder(current_user, order_id) ==
  LET found == {o \in orders : o.id = order_id}
      order == CHOOSE o \in found : TRUE
  IN
  /\ UNCHANGED <<cart_items, vouchers, voucher_usage, next_cart_id, next_order_id, sess, now>>
  /\ IF found = {}
     THEN /\ last' = Response("cancel_order", 404, <<"Order not found">>)
          /\ UNCHANGED <<books, orders>>
     ELSE IF order.user_id # current_user /\ Role(current_user) # "admin"
     THEN /\ last' = Response("cancel_order", 403, <<"Not authorized to cancel this order">>)
          /\ UNCHANGED <<books, orders>>
     ELSE IF order.status \in {"delivered", "cancelled"}
     THEN /\ last' = Response("cancel_order", 400, <<"Order cannot be cancelled">>)
          /\ UNCHANGED <<books, orders>>
     ELSE /\ orders' = (orders \ {order}) \cup
                         {[order EXCEPT !.status = "cancelled", !.cancelled_at = Some(now)]}
          /\ books' = [b \in DOMAIN books |->
                         LET items == {it \in order.order_items : it.book_id = b}
                             qty == SumOver(items, [it \in items |-> it.quantity])
                         IN  [books[b] EXCEPT !.stock_quantity = @ + qty,
                                              !.sold_quantity = @ - qty]]
          /\ last' = Response("cancel_order", 200, <<"Order cancelled successfully">>)

\* ---------------------------------------------------------------- preview
\* req.items is either absent (the stored cart is used) or a list of
\* (book_id, quantity) pairs turned into transient cart rows
PreviewCart(user_id, items, bk, all_cart) ==
  IF ~IsNone(items) /\ Val(items) # {}
  THEN {[id |-> 0, user_id |-> user_id, book_id |-> it.book_id, quantity |-> it.quantity] :
          it \in {i \in Val(items) : i.book_id \in DOMAIN bk}}
  ELSE {ci \in all_cart : ci.user_id = user_id}

\* a preview body computed without looking at the voucher_usage rows
PreviewBodyIgnoringUsage(voucher, user_id, items, shipping_fee, bk, all_cart, usage, t) ==
  LET cart == PreviewCart(user_id, items, bk, all_cart)
      subtotal == Subtotal(bk, cart)
      res == ComputeVoucherForCart(voucher, user_id, cart, subtotal, shipping_fee, bk, {}, t)
  IN [valid |-> res.ok,
      reason |-> IF res.ok THEN None ELSE Some(res.reason),
      subtotal |-> subtotal, shipping_fee |-> shipping_fee,
      discount_amount |-> res.discount_amount,
      shipping_discount |-> res.shipping_discount,
      total |-> subtotal + shipping_fee - res.discount_amount - res.shipping_discount]

\* the body validate_voucher returns for a voucher it has found
PreviewBody(voucher, user_id, items, shipping_fee, bk, all_cart, usage, t) ==
  LET cart == PreviewCart(user_id, items, bk, all_cart)
      subtotal == Subtotal(bk, cart)
      res == ComputeVoucherForCart(voucher, user_id, cart, subtotal, shipping_fee, bk, usage, t)
  IN [valid |-> res.ok,
      reason |-> IF res.ok THEN None ELSE Some(res.reason),
      subtotal |-> subtotal, shipping_fee |-> shipping_fee,
      discount_amount |-> res.discount_amount,
      shipping_discount |-> res.shipping_discount,
      total |-> subtotal + shipping_fee - res.discount_amount - res.shipping_discount]

\* a preview that also counts a use of the voucher it accepts
ValidateVoucherCountingUse(user_id, code, items, shipping_fee) ==
  LET found == FindVoucher("validate_voucher", Some(code), vouchers)
      body == PreviewBody(CHOOSE v \in found : TRUE, user_id, items, shipping_fee,
                          books, cart_items, voucher_usage, now)
  IN
  /\ UNCHANGED <<books, cart_items, voucher_usage, orders, next_cart_id,
                 next_order_id, sess, now>>
  /\ IF found = {}
     THEN /\ last' = Response("validate_voucher", 404, <<"Voucher khong ton tai">>)
          /\ UNCHANGED vouchers
     ELSE /\ last' = Response("validate_voucher", 200,
                              IF body.valid THEN <<"valid">> ELSE <<Val(body.reason)>>)
          /\ vouchers' = [i \in DOMAIN vouchers |->
                            IF body.valid /\ vouchers[i] \in found
                            THEN [vouchers[i] EXCEPT !.used_count = @ + 1]
                            ELSE vouchers[i]]

ValidateVoucher(user_id, code, items, shipping_fee) ==
  LET found == FindVoucher("validate_voucher", Some(code), vouchers)
      body == PreviewBody(CHOOSE v \in found : TRUE, user_id, items, shipping_fee,
                          books, cart_items, voucher_usage, now)
  IN
  /\ UNCHANGED <<books, cart_items, vouchers, voucher_usage, orders, next_cart_id,
                 next_order_id, sess, now>>
  /\ IF found = {}
     THEN last' = Response("validate_voucher", 404, <<"Voucher khong ton tai">>)
     ELSE last' = Response("validate_voucher", 200,
                           IF body.valid THEN <<"valid">> ELSE <<Val(body.reason)>>)

\* ------------------------------------------------------- administration
\* the fields of a VoucherUpdateRequest that reach the evaluation; an
\* absent field leaves the column as it is
NoVoucherUpdate ==
  [discount_type |-> None, discount_value |-> None, min_order_amount |-> None,
   max_discount_amount |-> None, usage_limit |-> None, user_limit |-> None,
   start_date |-> None, end_date |-> None, is_active |-> None,
   applicable_categories |-> None, applicable_books |-> None,
   excluded_categories |-> None, excluded_books |-> None]

Updated(old, field) == IF IsNone(field) THEN old ELSE Val(field)

ApplyVoucherUpdate(voucher, data) ==
  [voucher EXCEPT
     !.discount_type = Updated(@, data.discount_type),
     !.discount_value = Updated(@, data.discount_value),
     !.min_order_amount = Updated(@, data.min_order_amount),
     !.max_discount_amount = IF IsNone(data.max_discount_amount) THEN @
                             ELSE data.max_discount_amount,
     !.usage_limit = IF IsNone(data.usage_limit) THEN @ ELSE data.usage_limit,
     !.user_limit = IF IsNone(data.user_limit) THEN @ ELSE data.user_limit,
     !.start_date = Updated(@, data.start_date),
     !.end_date = Updated(@, data.end_date),
     !.is_active = Updated(@, data.is_active),
     !.applicable_categories = Updated(@, data.applicable_categories),
     !.applicable_books = Updated(@, data.applicable_books),
     !.excluded_categories = Updated(@, data.excluded_categories),
     !.excluded_books = Updated(@, data.excluded_books)]

UpdateVoucher(voucher_id, data) ==
  /\ UNCHANGED <<books, cart_items, voucher_usage, orders, next_cart_id,
                 next_order_id, sess, now>>
  /\ IF \A i \in DOMAIN vouchers : vouchers[i].id # voucher_id
     THEN /\ last' = Response("update_voucher", 404, <<"Voucher khong ton tai">>)
          /\ UNCHANGED vouchers
     ELSE /\ vouchers' = [i \in DOMAIN vouchers |->
                            IF vouchers[i].id = voucher_id
                            THEN ApplyVoucherUpdate(vouchers[i], data)
                            ELSE vouchers[i]]
          /\ last' = Response("update_voucher", 200, <<"Voucher da duoc cap nhat">>)

\* the fields of an OrderUpdate that reach the stored order; an absent field
\* leaves the column as it is
NoOrderUpdate == [status |-> None, payment_status |-> None]

\* the order update_order leaves in its session before db.commit()
ApplyOrderUpdate(order, order_data, t) ==
  LET status == Val(order_data.status)
      moved == [order EXCEPT !.status = status]
      stamped ==
        IF IsNone(order_data.status) THEN order
        ELSE IF status = "shipped" THEN [moved EXCEPT !.shipped_at = Some(t)]
        ELSE IF status = "delivered"
        THEN [moved EXCEPT !.delivered_at = Some(t),
                           !.payment_status = IF @ # "paid" THEN "paid" ELSE @]
        ELSE IF status = "cancelled" THEN [moved EXCEPT !.cancelled_at = Some(t)]
        ELSE moved
  IN  IF IsNone(order_data.payment_status) THEN stamped
      ELSE [stamped EXCEPT !.payment_status = Val(order_data.payment_status)]

\* update_order, called by the administrator
UpdateOrder(order_id, order_data) ==
  LET found == {o \in orders : o.id = order_id}
      order == CHOOSE o \in found : TRUE
      updated == ApplyOrderUpdate(order, order_data, now)
  IN
  /\ UNCHANGED <<books, cart_items, vouchers, voucher_usage, next_cart_id,
                 next_order_id, sess, now>>
  /\ IF found = {}
     THEN /\ last' = Response("update_order", 404, <<"Order not found">>)
          /\ UNCHANGED orders
     ELSE /\ orders' = (orders \ {order}) \cup {updated}
          /\ last' = Response("update_order", 200,
                              <<"Order updated successfully", ToString(order_id),
                                updated.status>>)

\* ------------------------------------------------------------ the system
CheckoutOps == {"create_order", "create_simple_order"}
VoucherRefs == {None} \cup {Some(i) : i \in VoucherIds \cup {0}}
CodeRefs == {None} \cup {Some(c) : c \in Codes}
PreviewItems == {None, Some({[book_id |-> 1, quantity |-> 1]})}
VoucherUpdates ==
  {[NoVoucherUpdate EXCEPT !.usage_limit = Some(0)],
   [NoVoucherUpdate EXCEPT !.usage_limit = Some(2)]}

Next ==
  \/ \E u \in Users, b \in Books, q \in 1..MaxQty : AddToCart(u, u, b, q)
  \/ \E p \in Procs, u \in Users, r \in VoucherRefs : CreateOrder(p, u, u, r)
  \/ \E p \in Procs, u \in Users, r \in CodeRefs : CreateSimpleOrder(p, u, u, r)
  \/ \E p \in Procs, ok \in BOOLEAN : FinishCheckout(p, ok)
  \/ \E a \in Accounts, o \in 1..MaxOrders : CancelOrder(a, o)
  \/ \E u \in Users, c \in Codes, i \in PreviewItems : ValidateVoucher(u, c, i, 0)

\* customers only: carts, previews, checkouts and cancellations
Spec == Init /\ [][Next]_vars

NextAdmin ==
  \/ Next
  \/ \E v \in VoucherIds, d \in VoucherUpdates : UpdateVoucher(v, d)

\* the same with the administrator editing vouchers
SpecAdmin == Init /\ [][NextAdmin]_vars

OrderUpdates ==
  {[NoOrderUpdate EXCEPT !.status = Some("delivered")],
   [NoOrderUpdate EXCEPT !.status = Some("delivered"), !.payment_status = Some("pending")],
   [NoOrderUpdate EXCEPT !.status = Some("cancelled")]}

NextOrders ==
  \/ \E u \in Users, b \in Books, q \in 1..MaxQty : AddToCart(u, u, b, q)
  \/ \E p \in Procs, u \in Users, r \in VoucherRefs : CreateOrder(p, u, u, r)
  \/ \E p \in Procs, ok \in BOOLEAN : FinishCheckout(p, ok)
  \/ \E a \in Accounts, o \in 1..MaxOrders : CancelOrder(a, o)
  \/ \E o \in 1..MaxOrders, d \in OrderUpdates : UpdateOrder(o, d)

\* the life of orders: placed through create_order, moved on by the
\* administrator, cancelled by their owner or the administrator
SpecOrders == Init /\ [][NextOrders]_vars

\* vouchers an administrator can store with create_voucher: any discount
\* type of the check constraint with any value, cap, and book filter
VoucherConfigs ==
  LET percent(v) == VoucherRow(1, "SALE", Some(1), Some(1), "percentage", v)
      fixed(v) == VoucherRow(1, "SALE", Some(1), Some(1), "fixed_amount", v)
  IN {percent(1000),
      percent(20000),
      [percent(1500) EXCEPT !.max_discount_amount = Some(1000)],
      [percent(1000) EXCEPT !.applicable_books = {1}],
      fixed(2000),
      fixed(50000),
      [fixed(2000) EXCEPT !.excluded_categories = {2}],
      VoucherRow(1, "SALE", Some(1), Some(1), "free_shipping", 0)}

\* carts add_to_cart can have built for user 1: up to two units of each book
CartConfigs ==
  {{[id |-> b, user_id |-> 1, book_id |-> b, quantity |-> q[b]] :
      b \in {c \in Books : q[c] > 0}} : q \in [Books -> 0..2]} \ {{}}

InitShop ==
  /\ books = InitBooks
  /\ cart_items \in CartConfigs
  /\ vouchers \in {[i \in VoucherIds |-> v] : v \in VoucherConfigs}
  /\ voucher_usage = {}
  /\ orders = {}
  /\ next_cart_id = Cardinality(Books) + 1
  /\ next_order_id = 1
  /\ sess = [p \in Procs |-> IdleSession]
  /\ last = Response("", 0, <<>>)
  /\ now = 0

NextShop ==
  \/ \E p \in Procs, r \in VoucherRefs : CreateOrder(p, 1, 1, r)
  \/ \E p \in Procs, r \in CodeRefs : CreateSimpleOrder(p, 1, 1, r)
  \/ \E p \in Procs, ok \in BOOLEAN : FinishCheckout(p, ok)

\* one customer checking out, in a shop found with any of the voucher and
\* cart configurations
SpecShop == InitShop /\ [][NextShop]_vars

\* ------------------------------------------------- the evaluator's inputs
\* book and category filters an administrator can store
EvalFilters ==
  LET none == [applicable_categories |-> {}, applicable_books |-> {},
               excluded_categories |-> {}, excluded_books |-> {}]
  IN {none,
      [none EXCEPT !.applicable_books = {1}],
      [none EXCEPT !.applicable_categories = {2}],
      [none EXCEPT !.excluded_books = {1}],
      [none EXCEPT !.applicable_books = {1}, !.excluded_categories = {1}]}

\* discount type, value and cap: 10 percent, 15 percent capped at 1000.00,
\* 80000.00 off, 50000.00 off capped at 30000.00, free shipping up to 20.00
EvalDiscounts ==
  {<<"percentage", 1000, None>>,
   <<"percentage", 1500, Some(100000)>>,
   <<"fixed_amount", 8000000, None>>,
   <<"fixed_amount", 5000000, Some(3000000)>>,
   <<"free_shipping", 0, Some(2000)>>}

\* vouchers as create_voucher and update_voucher can have left them
EvalVouchers ==
  {[VoucherRow(1, "SALE", ul, pl, d[1], d[2]) EXCEPT
      !.is_active = a,
      !.min_order_amount = m,
      !.max_discount_amount = d[3],
      !.applicable_categories = f.applicable_categories,
      !.applicable_books = f.applicable_books,
      !.excluded_categories = f.excluded_categories,
      !.excluded_books = f.excluded_books] :
     a \in BOOLEAN, ul \in {None, Some(1)}, pl \in {None, Some(1)},
     m \in {0, 12000000}, f \in EvalFilters, d \in EvalDiscounts}

\* book 1 at 100000.00 and book 2 at 50000.03, two of each in stock
EvalBooks ==
  [b \in Books |->
     [id |-> b, price |-> IF b = 1 THEN 10000000 ELSE 5000003, category_id |-> b,
      stock_quantity |-> 2, sold_quantity |-> 0]]

\* an order user 1 placed before with voucher 1, for one unit of book 2
PriorOrder ==
  [id |-> 1, user_id |-> 1, status |-> "pending", payment_status |-> "pending",
   subtotal |-> 5000003, shipping_fee |-> 0, discount_amount |-> 500000,
   total_amount |-> 4500003, voucher_id |-> Some(1),
   order_items |-> {[book_id |-> 2, quantity |-> 1, unit_price |-> 5000003,
                     total_price |-> 5000003]},
   shipped_at |-> None, delivered_at |-> None, cancelled_at |-> None]

\* carts of user 1: one or two units of book 1, one unit of book 2, and one
\* unit of book 1 with two of book 2
EvalCarts ==
  {c \in CartConfigs :
     {<<ci.book_id, ci.quantity>> : ci \in c} \in
       {{<<1, 1>>}, {<<1, 2>>}, {<<2, 1>>}, {<<1, 1>>, <<2, 2>>}}}

\* the shop before or after that order, at a time inside (0) or after (1)
\* the voucher's window
InitEval ==
  /\ \E prior \in BOOLEAN, v \in EvalVouchers :
       /\ orders = IF prior THEN {PriorOrder} ELSE {}
       /\ voucher_usage =
            IF prior
            THEN {[voucher_id |-> 1, user_id |-> 1, order_id |-> 1, discount_amount |-> 500000]}
            ELSE {}
       /\ vouchers = [i \in VoucherIds |-> [v EXCEPT !.used_count = IF prior THEN 1 ELSE 0]]
       /\ books = IF prior
                  THEN [EvalBooks EXCEPT ![2].stock_quantity = 1, ![2].sold_quantity = 1]
                  ELSE EvalBooks
       /\ next_order_id = IF prior THEN 2 ELSE 1
  /\ cart_items \in EvalCarts
  /\ next_cart_id = Cardinality(Books) + 1
  /\ sess = [p \in Procs |-> IdleSession]
  /\ last = Response("", 0, <<>>)
  /\ now \in {0, 1}

ShippingFees == {0, 3000}

NextEval ==
  \/ \E c \in Codes, i \in PreviewItems, f \in ShippingFees : ValidateVoucher(1, c, i, f)
  \/ \E r \in VoucherRefs : CreateOrder(1, 1, 1, r)
  \/ \E r \in CodeRefs : CreateSimpleOrder(1, 1, 1, r)
  \/ \E ok \in BOOLEAN : FinishCheckout(1, ok)

\* the evaluator applied by previews and checkouts of user 1, one request at
\* a time, to any of these vouchers, carts, histories and times
SpecEval == InitEval /\ [][NextEval]_vars

\* ----------------------------------------------------------- properties
Range(seq) == {seq[i] : i \in DOMAIN seq}

\* the code answers 400 where the design speaks of a conflict (cancel_order)
IsConflict(response) == response.status = 400

\* the step is a checkout that ends in an error
CheckoutFailed == last'.op \in CheckoutOps /\ last'.status \notin {0, 200}

\* the step is worker p committing its order
Commits(p) ==
  /\ sess[p].pc = "in_txn"
  /\ sess'[p].pc = "idle"
  /\ last'.status = 200

\* what cancel_order would make of the books bk for the lines of an order
Restocked(bk, order) ==
  [b \in DOMAIN bk |->
     LET items == {it \in order.order_items : it.book_id = b}
         qty == SumOver(items, [it \in items |-> it.quantity])
     IN  [bk[b] EXCEPT !.stock_quantity = @ + qty, !.sold_quantity = @ - qty]]

\* C1: after any sequence of checkouts and cancellations every book's
\* stock_quantity is at least 0
StockNeverNegative == \A b \in DOMAIN books : books[b].stock_quantity >= 0

\* C2: a voucher with a usage_limit never has used_count above it
UsageLimitRespected ==
  \A i \in DOMAIN vouchers :
    ~IsNone(vouchers[i].usage_limit) => vouchers[i].used_count <= Val(vouchers[i].usage_limit)

\* C3: of two checkouts that both evaluated a voucher at its last remaining
\* use only one commits: the one that reaches its commit after the use has
\* been taken creates no order and ends with an error
LastUseTakenOnce ==
  [][\A p \in Procs :
       (/\ sess[p].pc = "in_txn"
        /\ sess'[p].pc = "idle"
        /\ ~IsNone(sess[p].voucher_write)
        /\ \E i \in DOMAIN vouchers :
             /\ vouchers[i].id = Val(sess[p].voucher_write).id
             /\ ~IsNone(vouchers[i].usage_limit)
             /\ Val(sess[p].voucher_write).used_count = Val(vouchers[i].usage_limit)
             /\ vouchers[i].used_count >= Val(vouchers[i].usage_limit))
       => (orders' = orders /\ last'.status # 200)]_vars

\* C4: a checkout that ends in an error leaves books, carts, vouchers, usage
\* rows and orders as they were before the request
AllOrNothing == [][CheckoutFailed => UNCHANGED dbvars]_vars

\* C4 witness: a checkout has failed at its commit while the cart it read
\* is still stored and no order exists
RolledBackCheckout ==
  /\ last.op \in CheckoutOps
  /\ last.status = 500
  /\ last.detail = <<"Error creating order">>
  /\ cart_items # {}
  /\ orders = {}

\* C5: cancelling the order a checkout has just committed puts the
\* stock_quantity and sold_quantity of every book back to the values they
\* had before that checkout
CancelUndoesCheckout ==
  [][\A p \in Procs :
       Commits(p) => Restocked(books', sess[p].new_order) = books]_vars

\* C6: a committing checkout lowers the stored stock_quantity of each book it
\* took by the ordered quantity and raises sold_quantity by it, whatever
\* another checkout has committed since it read the book
NoLostCounterUpdate ==
  [][\A p \in Procs :
       Commits(p) =>
         \A it \in sess[p].new_order.order_items :
           it.book_id \in DOMAIN sess[p].book_writes =>
             /\ books'[it.book_id].stock_quantity =
                  books[it.book_id].stock_quantity - it.quantity
             /\ books'[it.book_id].sold_quantity =
                  books[it.book_id].sold_quantity + it.quantity]_vars

\* C7: no user has more voucher_usage rows for a voucher than its user_limit
UserLimitRespected ==
  \A i \in DOMAIN vouchers, u \in Users :
    (~IsNone(vouchers[i].user_limit) /\ Val(vouchers[i].user_limit) > 0) =>
      UserUsed(voucher_usage, vouchers[i].id, u) <= Val(vouchers[i].user_limit)

\* C8: a voucher preview, whatever it answers, changes no stored row, no
\* sequence and no open session
PreviewChangesNothing ==
  [][last'.op = "validate_voucher" =>
       UNCHANGED <<dbvars, next_cart_id, next_order_id, sess>>]_vars

\* C8 witness: a preview has accepted the voucher for a stored cart
PreviewAccepted ==
  /\ last.op = "validate_voucher"
  /\ last.status = 200
  /\ last.detail = <<"valid">>
  /\ cart_items # {}

\* C9: no checkout goes on to create an order when one of its cart lines
\* asks for more units than the book's stock_quantity
InsufficientStockRejected ==
  [][\A p \in Procs :
       (sess[p].pc = "idle" /\ sess'[p].pc = "in_txn") =>
         \A it \in sess'[p].new_order.order_items :
           it.quantity <= books[it.book_id].stock_quantity]_vars

\* C10: a checkout whose voucher is missing or rejected changes nothing, and
\* when the rejection is an exhausted usage or user limit the answer is a
\* conflict error carrying that reason
VoucherRejectionIsConflict ==
  [][(/\ last'.op \in CheckoutOps
      /\ Range(last'.detail) \cap {"Voucher khong ton tai", "Khong ap dung duoc voucher"} # {})
     => /\ UNCHANGED dbvars
        /\ Range(last'.detail) \cap {ReasonUsageLimit, ReasonUserLimit} # {}
             => IsConflict(last')]_vars

\* the code answers 400 where the design speaks of a validation error
IsValidationError(response) == response.status = 400

\* C11: no checkout goes on with a cart that has no lines, and the answer
\* "Cart is empty" of either checkout endpoint is a validation error that
\* leaves every stored row and the order sequence as they were
EmptyCartIsValidationError ==
  [][/\ \A p \in Procs :
          (sess[p].pc = "idle" /\ sess'[p].pc = "in_txn") =>
            {ci \in cart_items : ci.user_id = sess'[p].user_id} # {}
     /\ (last'.op \in CheckoutOps /\ "Cart is empty" \in Range(last'.detail)) =>
          /\ IsValidationError(last')
          /\ UNCHANGED <<dbvars, next_order_id>>]_vars

\* C12: cancel_order on an order that is delivered or cancelled changes no
\* stored row (the order keeps its status, no book's stock_quantity or
\* sold_quantity moves), and its owner or the administrator is answered
\* with a conflict error
CancelOfClosedOrderRejected ==
  [][\A a \in Accounts, o \in orders :
       (CancelOrder(a, o.id) /\ o.status \in {"delivered", "cancelled"}) =>
         /\ UNCHANGED dbvars
         /\ (o.user_id = a \/ Role(a) = "admin") => IsConflict(last')]_vars

\* C12 witness: a cancellation has been refused while one order is delivered
\* and another cancelled
ClosedOrderCancelRefused ==
  /\ last = Response("cancel_order", 400, <<"Order cannot be cancelled">>)
  /\ \E o \in orders : o.status = "delivered"
  /\ \E o \in orders : o.status = "cancelled"

\* C13: a cancel_order that succeeds leaves the used_count of every voucher,
\* the one of the cancelled order among them, and the voucher_usage rows as
\* they were
CancelKeepsVoucherUse ==
  [][(last'.op = "cancel_order" /\ last'.status = 200) =>
       /\ \A i \in DOMAIN vouchers : vouchers'[i].used_count = vouchers[i].used_count
       /\ voucher_usage' = voucher_usage]_vars

\* C13 witness: an order placed with a voucher has just been cancelled and
\* its use is still counted and recorded
CancelledWithVoucherUse ==
  /\ last = Response("cancel_order", 200, <<"Order cancelled successfully">>)
  /\ \E o \in orders, i \in DOMAIN vouchers :
       /\ o.status = "cancelled"
       /\ o.voucher_id = Some(vouchers[i].id)
       /\ vouchers[i].used_count >= 1
       /\ \E vu \in voucher_usage : vu.order_id = o.id /\ vu.voucher_id = vouchers[i].id

\* C14: an update_order that moves an open order to status cancelled does
\* what cancel_order does: every book gets the quantities of the order's
\* lines back in stock_quantity and taken off sold_quantity, and the order
\* is stored as cancelled with cancelled_at stamped
StatusCancelledRestocks ==
  [][\A o \in orders, d \in OrderUpdates :
       (/\ UpdateOrder(o.id, d)
        /\ d.status = Some("cancelled")
        /\ o.status \notin {"delivered", "cancelled"}) =>
         /\ books' = Restocked(books, o)
         /\ \E n \in orders' :
              n.id = o.id /\ n.status = "cancelled" /\ n.cancelled_at = Some(now)]_vars

\* C15: after an update_order that moves an order to status delivered the
\* order is stored with delivered_at stamped and payment_status paid,
\* whatever payment_status it had and whatever else the request carries
DeliveredIsPaid ==
  [][\A o \in orders, d \in OrderUpdates :
       (UpdateOrder(o.id, d) /\ d.status = Some("delivered")) =>
         \E n \in orders' :
           /\ n.id = o.id
           /\ n.status = "delivered"
           /\ n.delivered_at = Some(now)
           /\ n.payment_status = "paid"]_vars

\* C16: the total_price values of the lines of every stored order add up to
\* the order's subtotal (the float sum of main.py 3315 is stored in a
\* Decimal(10, 2) column, which takes it to the exact hundredth)
LinesSumToSubtotal ==
  \A o \in orders :
    SumOver(o.order_items, [it \in o.order_items |-> it.total_price]) = o.subtotal

\* C16 witness: an order of two lines, one of them for two units, is stored
TwoLineOrderStored ==
  \E o \in orders :
    /\ Cardinality(o.order_items) = 2
    /\ \E it \in o.order_items : it.quantity = 2 /\ it.total_price = 2 * it.unit_price

\* the evaluation a stored order was placed with: its lines as the cart, its
\* voucher as create_voucher stored it, before any use was counted
OrderDiscount(o) ==
  IF IsNone(o.voucher_id) THEN 0
  ELSE LET voucher == CHOOSE v \in Range(vouchers) : v.id = Val(o.voucher_id)
           res == ComputeVoucherForCart([voucher EXCEPT !.used_count = 0], o.user_id,
                                        o.order_items, o.subtotal, o.shipping_fee,
                                        books, {}, now)
       IN  res.discount_amount + res.shipping_discount

\* C17: every stored order has total_amount = subtotal + shipping_fee -
\* discount_amount, and its discount_amount is the product discount plus
\* the shipping discount the evaluator returns for its lines and voucher
TotalIsSubtotalLessDiscount ==
  \A o \in orders :
    /\ o.total_amount = o.subtotal + o.shipping_fee - o.discount_amount
    /\ o.discount_amount = OrderDiscount(o)

\* C17 witness: an order is stored with a discount that is a part of its
\* subtotal
DiscountedOrderStored ==
  \E o \in orders :
    /\ ~IsNone(o.voucher_id)
    /\ o.discount_amount > 0
    /\ o.discount_amount < o.subtotal
    /\ o.total_amount = o.subtotal - o.discount_amount

\* C18: whatever voucher the administrator has stored, every stored order
\* has 0 <= discount_amount <= subtotal + shipping_fee and so a total_amount
\* that is not negative
DiscountWithinOrder ==
  \A o \in orders :
    /\ 0 <= o.discount_amount
    /\ o.discount_amount <= o.subtotal + o.shipping_fee
    /\ o.total_amount >= 0

\* C19: after any sequence of checkouts and cancellations every book's
\* sold_quantity is at least 0
SoldNeverNegative == \A b \in DOMAIN books : books[b].sold_quantity >= 0

\* the step is worker p committing an order placed with a voucher
CommitsWithVoucher(p) == Commits(p) /\ ~IsNone(sess[p].usage_row)

\* C20: a checkout that commits with a voucher adds one voucher_usage row
\* for the voucher, the user and the new order, carrying the order's
\* discount, and raises the used_count of that voucher by 1; every other
\* step (a checkout without voucher, a failed checkout, a preview, a
\* cancellation) leaves the rows and every used_count as they were
VoucherUseCountedOnce ==
  [][IF \E p \in Procs : CommitsWithVoucher(p)
     THEN \A p \in Procs : CommitsWithVoucher(p) =>
            LET row == Val(sess[p].usage_row)
            IN  /\ row \notin voucher_usage
                /\ voucher_usage' = voucher_usage \cup {row}
                /\ row.order_id = sess[p].new_order.id
                /\ row.user_id = sess[p].new_order.user_id
                /\ Some(row.voucher_id) = sess[p].new_order.voucher_id
                /\ row.discount_amount = sess[p].new_order.discount_amount
                /\ \A i \in DOMAIN vouchers :
                     vouchers'[i].used_count =
                       IF vouchers[i].id = row.voucher_id
                       THEN vouchers[i].used_count + 1
                       ELSE vouchers[i].used_count
     ELSE /\ voucher_usage' = voucher_usage
          /\ \A i \in DOMAIN vouchers : vouchers'[i].used_count = vouchers[i].used_count]_vars

\* C21: the commit of a checkout stores the order and, in the same step,
\* deletes the cart rows the checkout loaded, one for each order line and
\* all of the requesting user; every other cart row, those of other users
\* among them, stays as it is
CheckoutClearsOwnCart ==
  [][\A p \in Procs :
       Commits(p) =>
         LET loaded == {ci \in cart_items : ci.id \in sess[p].cart_deletes}
         IN  /\ sess[p].new_order \in orders'
             /\ Cardinality(sess[p].cart_deletes) =
                  Cardinality(sess[p].new_order.order_items)
             /\ \A ci \in loaded : ci.user_id = sess[p].user_id
             /\ cart_items' = cart_items \ loaded
             /\ \A ci \in cart_items : ci.user_id # sess[p].user_id => ci \in cart_items']_vars

\* C21 witness: a checkout has committed while another user's cart row is
\* stored, and that row is still there
OtherCartKept ==
  /\ last.op \in CheckoutOps
  /\ last.status = 200
  /\ \E o \in orders, ci \in cart_items :
       /\ ci.user_id # o.user_id
       /\ \A cj \in cart_items : cj.user_id # o.user_id

\* what validate_voucher answers for the stored cart of the user and a
\* shipping fee of 0, the fee of every checkout
StoredPreview(voucher, user_id) ==
  PreviewBody(voucher, user_id, None, 0, books, cart_items, voucher_usage, now)

\* a checkout step that evaluates a voucher comes to the verdict and the
\* amounts of the preview in the state it starts from
AgreesWithPreview(p, op, user_id, ref) ==
  LET found == FindVoucher(op, ref, vouchers)
      body == StoredPreview(CHOOSE v \in found : TRUE, user_id)
  IN  (/\ ~IsNone(ref)
       /\ found # {}
       /\ {ci \in cart_items : ci.user_id = user_id} # {}) =>
        IF body.valid
        THEN /\ sess'[p].pc = "in_txn"
             /\ sess'[p].new_order.subtotal = body.subtotal
             /\ sess'[p].new_order.discount_amount =
                  body.discount_amount + body.shipping_discount
             /\ sess'[p].new_order.total_amount = body.total
        ELSE /\ sess'[p].pc = "idle"
             /\ {"Khong ap dung duoc voucher", Val(body.reason)} \subseteq Range(last'.detail)

\* C22: from the same stored voucher, usage rows, cart and book prices and
\* with the same shipping fee, a checkout that evaluates a voucher reaches
\* the verdict of the preview: the same rejection reason, or the same
\* subtotal, discount and total
PreviewMatchesCheckout ==
  [][/\ \A r \in VoucherRefs :
          CreateOrder(1, 1, 1, r) => AgreesWithPreview(1, "create_order", 1, r)
     /\ \A r \in CodeRefs :
          CreateSimpleOrder(1, 1, 1, r) =>
            AgreesWithPreview(1, "create_simple_order", 1, r)]_vars

\* C22 witness: a checkout has gone on with a discount, and the preview of
\* the state it read accepts the voucher with the same total
CheckoutAsPreviewed ==
  /\ sess[1].pc = "in_txn"
  /\ ~IsNone(sess[1].usage_row)
  /\ sess[1].new_order.discount_amount > 0
  /\ \E i \in DOMAIN vouchers :
       /\ StoredPreview(vouchers[i], 1).valid
       /\ StoredPreview(vouchers[i], 1).total = sess[1].new_order.total_amount

\* the cart rows of user 1 and the evaluation of the stored voucher v for
\* them with shipping fee f, in the current state
CartOf1 == {ci \in cart_items : ci.user_id = 1}

Evaluation(v, f) ==
  ComputeVoucherForCart(v, 1, CartOf1, Subtotal(books, CartOf1), f, books,
                        voucher_usage, now)

\* the checks of the design in their order, each with the reason it gives
\* and whether the voucher v fails it for the cart rows cart of user 1
Checks(v, cart) ==
  <<[reason |-> ReasonInactive, fails |-> v.is_active = FALSE],
    [reason |-> ReasonWindow, fails |-> now < v.start_date \/ v.end_date < now],
    [reason |-> ReasonUsageLimit,
     fails |-> v.usage_limit # None /\ ~(v.used_count < Val(v.usage_limit))],
    [reason |-> ReasonUserLimit,
     fails |-> /\ v.user_limit # None
               /\ Val(v.user_limit) > 0
               /\ ~(Cardinality({vu \in voucher_usage :
                                   vu.voucher_id = v.id /\ vu.user_id = 1})
                      < Val(v.user_limit))],
    [reason |-> ReasonMinOrder,
     fails |-> v.min_order_amount > 0 /\ Subtotal(books, cart) < v.min_order_amount],
    [reason |-> ReasonNoEligible,
     fails |-> /\ v.applicable_books \cup v.applicable_categories # {}
               /\ \A ci \in cart : ~Eligible(v, books[ci.book_id])],
    [reason |-> ReasonBadType,
     fails |-> v.discount_type \notin {"percentage", "fixed_amount", "free_shipping"}]>>

\* the reason of the first check of the sequence that fails, if one does
FirstFailure(checks) ==
  LET failing == {i \in DOMAIN checks : checks[i].fails}
  IN  IF failing = {} THEN None
      ELSE Some(checks[CHOOSE i \in failing : \A j \in failing : i <= j].reason)

\* C23: the evaluator accepts a voucher that passes every check and
\* otherwise returns the reason of the first check that fails, in the order
\* active flag, window, usage limit, user limit, minimum order, eligible
\* items, discount type, with both discounts 0; a preview of the stored
\* cart answers with that verdict
ChecksInOrder ==
  \A i \in DOMAIN vouchers, f \in ShippingFees :
    LET first == FirstFailure(Checks(vouchers[i], CartOf1))
        res == Evaluation(vouchers[i], f)
    IN  /\ IF first = None THEN res.ok
           ELSE res = Result(FALSE, Val(first), 0, 0)
        /\ (last.op = "validate_voucher" /\ last.status = 200) =>
             \/ last.detail = IF first = None THEN <<"valid">> ELSE <<Val(first)>>
             \/ \E items \in PreviewItems \ {None} :
                  LET cart == PreviewCart(1, items, books, cart_items)
                      other == FirstFailure(Checks(vouchers[i], cart))
                  IN  last.detail = IF other = None THEN <<"valid">> ELSE <<Val(other)>>

\* C23 witness: a preview has answered "usage limit" for a voucher that
\* also fails the user limit and the minimum order amount
FirstOfThreeFailures ==
  /\ last = Response("validate_voucher", 200, <<ReasonUsageLimit>>)
  /\ \E i \in DOMAIN vouchers :
       LET checks == Checks(vouchers[i], CartOf1)
       IN  {j \in DOMAIN checks : checks[j].fails} = {3, 4, 5}

\* the cart line ci survives the filters of the voucher v as the design
\* states them
Kept(v, ci) ==
  LET book == books[ci.book_id]
  IN  /\ book.id \notin v.excluded_books
      /\ book.category_id \notin v.excluded_categories
      /\ \/ v.applicable_books = {} /\ v.applicable_categories = {}
         \/ book.id \in v.applicable_books
         \/ book.category_id \in v.applicable_categories

KeptAmount(v, cart) ==
  SumOver({ci \in cart : Kept(v, ci)},
          [ci \in cart |-> books[ci.book_id].price * ci.quantity])

Uncapped(v, type) == v.discount_type = type /\ IsNone(v.max_discount_amount)

\* C24: the eligible amount is the sum of price times quantity over the
\* lines that are not excluded and, when there is an inclusion list, are
\* included; an accepted percentage voucher without a cap discounts, in an
\* evaluation and in the order a checkout builds, that percentage of it
EligibleIsSumOfKeptLines ==
  \A i \in DOMAIN vouchers :
    LET v == vouchers[i]
        res == Evaluation(v, 0)
    IN  /\ EligibleAmount(v, books, CartOf1) = KeptAmount(v, CartOf1)
        /\ (res.ok /\ Uncapped(v, "percentage")) =>
             res.discount_amount = PercentOf(KeptAmount(v, CartOf1), v.discount_value)
        /\ (/\ sess[1].pc = "in_txn"
            /\ sess[1].new_order.voucher_id = Some(v.id)
            /\ Uncapped(v, "percentage")) =>
             sess[1].new_order.discount_amount =
               PercentOf(KeptAmount(v, CartOf1), v.discount_value)

\* C24 witness: a checkout with a percentage voucher that excludes book 1
\* has discounted the two units of book 2 only
ExcludedLineNotDiscounted ==
  /\ sess[1].pc = "in_txn"
  /\ \E i \in DOMAIN vouchers :
       /\ sess[1].new_order.voucher_id = Some(vouchers[i].id)
       /\ Uncapped(vouchers[i], "percentage")
       /\ vouchers[i].excluded_books = {1}
       /\ sess[1].new_order.discount_amount =
            PercentOf(2 * books[2].price, vouchers[i].discount_value)
  /\ {[book_id |-> ci.book_id, quantity |-> ci.quantity] : ci \in CartOf1}
       = {[book_id |-> 1, quantity |-> 1], [book_id |-> 2, quantity |-> 2]}

\* d is not more than half a hundredth above amount * value / 100, for
\* amounts in hundredths and a value in hundredths of a percent; the whole
\* ten-thousands of amount are taken out first to keep the products small
PercentNotAbove(d, amount, value) ==
  d - (amount \div 10000) * value <= ((amount % 10000) * value + 5000) \div 10000

\* d is not more than half a hundredth below amount * value / 100
PercentNotBelow(d, amount, value) ==
  d - (amount \div 10000) * value >= ((amount % 10000) * value + 4999) \div 10000

\* d is amount * value / 100 to the nearest hundredth
IsPercentOf(d, amount, value) ==
  PercentNotAbove(d, amount, value) /\ PercentNotBelow(d, amount, value)

\* d is what the cap of v leaves of a discount: the full discount (is_full
\* says that d is it) when v has no cap or d is below the cap, the cap when
\* the full discount is not below it (at_least says that it is not below d)
IsCapped(v, d, is_full, at_least) ==
  IF IsNone(v.max_discount_amount) \/ v.max_discount_amount = Some(0)
  THEN is_full
  ELSE \/ d < Val(v.max_discount_amount) /\ is_full
       \/ d = Val(v.max_discount_amount) /\ at_least

\* C25: an accepted percentage voucher discounts eligible amount * value /
\* 100, or its cap when that is set and smaller, and nothing on shipping;
\* 10 percent of 200000.00 without a cap is 20000.00
PercentageDiscount ==
  \A i \in DOMAIN vouchers, f \in ShippingFees :
    LET v == vouchers[i]
        res == Evaluation(v, f)
        eligible == KeptAmount(v, CartOf1)
        d == res.discount_amount
    IN  (res.ok /\ v.discount_type = "percentage") =>
          /\ IsCapped(v, d, IsPercentOf(d, eligible, v.discount_value),
                      PercentNotAbove(d, eligible, v.discount_value))
          /\ res.shipping_discount = 0
          /\ (v.discount_value = 1000 /\ IsNone(v.max_discount_amount)
               /\ eligible = 20000000) => res.discount_amount = 2000000
          /\ (sess[1].pc = "in_txn" /\ sess[1].new_order.voucher_id = Some(v.id)) =>
               sess[1].new_order.discount_amount = res.discount_amount

\* C25 witness: a checkout of two units of book 1, 200000.00, with a 10
\* percent voucher has built an order with a discount of 20000.00
TenPercentOfTwoHundredThousand ==
  /\ sess[1].pc = "in_txn"
  /\ sess[1].new_order.subtotal = 20000000
  /\ sess[1].new_order.discount_amount = 2000000
  /\ \E i \in DOMAIN vouchers :
       /\ sess[1].new_order.voucher_id = Some(vouchers[i].id)
       /\ Uncapped(vouchers[i], "percentage")
       /\ vouchers[i].discount_value = 1000
       /\ KeptAmount(vouchers[i], CartOf1) = 20000000

\* C26: an accepted fixed_amount voucher discounts the smaller of its value
\* and the eligible amount, or its cap when that is set and smaller, so
\* never more than the eligible amount; a value of 50000.00 capped at
\* 30000.00 on 100000.00 gives 30000.00
FixedDiscount ==
  \A i \in DOMAIN vouchers, f \in ShippingFees :
    LET v == vouchers[i]
        res == Evaluation(v, f)
        eligible == KeptAmount(v, CartOf1)
        d == res.discount_amount
        at_least == d <= v.discount_value /\ d <= eligible
    IN  (res.ok /\ v.discount_type = "fixed_amount") =>
          /\ IsCapped(v, d, at_least /\ d \in {v.discount_value, eligible}, at_least)
          /\ res.discount_amount <= eligible
          /\ (v.discount_value = 5000000 /\ v.max_discount_amount = Some(3000000)
               /\ eligible = 10000000) => res.discount_amount = 3000000
          /\ (sess[1].pc = "in_txn" /\ sess[1].new_order.voucher_id = Some(v.id)) =>
               sess[1].new_order.discount_amount = res.discount_amount

\* C26 witness: a checkout of one unit of book 1, 100000.00, with a voucher
\* of 50000.00 capped at 30000.00 has built an order with a discount of
\* 30000.00
FixedAmountCapped ==
  /\ sess[1].pc = "in_txn"
  /\ sess[1].new_order.subtotal = 10000000
  /\ sess[1].new_order.discount_amount = 3000000
  /\ \E i \in DOMAIN vouchers :
       /\ sess[1].new_order.voucher_id = Some(vouchers[i].id)
       /\ vouchers[i].discount_type = "fixed_amount"
       /\ vouchers[i].discount_value = 5000000
       /\ vouchers[i].max_discount_amount = Some(3000000)
       /\ KeptAmount(vouchers[i], CartOf1) = 10000000

\* the voucher v lists books or categories it applies to and no line of
\* the stored cart of user 1 survives its filters
NothingEligible(v) ==
  /\ v.applicable_books \cup v.applicable_categories # {}
  /\ \A ci \in CartOf1 : ~Kept(v, ci)

\* the evaluation refuses such a voucher with both discounts 0, and for
\* the reason "no eligible items" when the checks before that one pass
NothingEligibleRefused ==
  \A i \in DOMAIN vouchers, f \in ShippingFees :
    LET v == vouchers[i]
        res == Evaluation(v, f)
        checks == Checks(v, CartOf1)
    IN  NothingEligible(v) =>
          /\ ~res.ok /\ res.discount_amount = 0 /\ res.shipping_discount = 0
          /\ (\A j \in 1..5 : ~checks[j].fails) => res.reason = ReasonNoEligible

\* a checkout step of user 1 that names such a voucher leaves no open
\* transaction and no new order
CheckoutRefused(op, ref) ==
  (/\ ~IsNone(ref)
   /\ \E v \in FindVoucher(op, ref, vouchers) : NothingEligible(v)) =>
    /\ sess'[1].pc = "idle"
    /\ UNCHANGED dbvars
    /\ last'.op = op /\ last'.status \in {400, 500}

\* C27: a voucher with an inclusion list is rejected with discount 0 when
\* no cart line survives its filters, for the reason "no eligible items"
\* when no earlier check fails, and a checkout that names it creates no
\* order
NoEligibleItemsRejected ==
  [][/\ NothingEligibleRefused /\ NothingEligibleRefused'
     /\ \A r \in VoucherRefs : CreateOrder(1, 1, 1, r) => CheckoutRefused("create_order", r)
     /\ \A r \in CodeRefs :
          CreateSimpleOrder(1, 1, 1, r) => CheckoutRefused("create_simple_order", r)]_vars

\* C27 witness: a checkout of book 1 with an active voucher for category 2
\* has been refused for the reason "no eligible items"
CheckoutWithNothingEligible ==
  /\ last.op = "create_order" /\ last.status = 400
  /\ ReasonNoEligible \in Range(last.detail)
  /\ sess[1].pc = "idle"
  /\ CartOf1 # {}
  /\ \E i \in DOMAIN vouchers :
       vouchers[i].applicable_categories = {2} /\ NothingEligible(vouchers[i])
  /\ orders \subseteq {PriorOrder}

\* C28: through checkouts and cancellations, in any interleaving, the sum
\* of stock_quantity and sold_quantity of every book stays what it was
StockPlusSoldConstant ==
  \A b \in DOMAIN books :
    books[b].stock_quantity + books[b].sold_quantity
      = InitBooks[b].stock_quantity + InitBooks[b].sold_quantity

\* C28 witness: one order was cancelled and another, of a book that has
\* left the stock, was not
SoldAndGivenBack ==
  /\ \E o \in orders : o.status = "cancelled"
  /\ \E o \in orders, b \in DOMAIN books :
       /\ o.status = "pending"
       /\ b \in {it.book_id : it \in o.order_items}
       /\ books[b].stock_quantity < InitBooks[b].stock_quantity
       /\ books[b].sold_quantity > 0

\* C29: whenever no checkout is between its reads and its commit, the
\* used_count of every voucher is the number of voucher_usage rows that
\* reference it
UsedCountMatchesUsageRows ==
  (\A p \in Procs : sess[p].pc = "idle") =>
    \A i \in DOMAIN vouchers :
      vouchers[i].used_count
        = Cardinality({vu \in voucher_usage : vu.voucher_id = vouchers[i].id})

\* status changes by which the administrator closes an order and opens it
\* again: update_order accepts any status for an order in any status
OrderReopenings ==
  {[NoOrderUpdate EXCEPT !.status = Some("cancelled")],
   [NoOrderUpdate EXCEPT !.status = Some("pending")]}

\* cancellations are followed while no book has more than MaxStock in stock
MaxStock == 2

NextReopen ==
  \/ \E b \in Books, q \in 1..MaxQty : AddToCart(1, 1, b, q)
  \/ \E r \in VoucherRefs : CreateOrder(1, 1, 1, r)
  \/ \E r \in CodeRefs : CreateSimpleOrder(1, 1, 1, r)
  \/ \E ok \in BOOLEAN : FinishCheckout(1, ok)
  \/ /\ \A b \in DOMAIN books : books[b].stock_quantity <= MaxStock
     /\ \E a \in Accounts, o \in 1..MaxOrders : CancelOrder(a, o)
  \/ \E o \in 1..MaxOrders, d \in OrderReopenings : UpdateOrder(o, d)

\* one customer whose requests are served one at a time, and the
\* administrator cancelling and reopening the orders
SpecReopen == Init /\ [][NextReopen]_vars

\* C30: the stock of an order is given back at most once whatever
\* cancel_order and update_order calls are made on it, so that no book's
\* stock_quantity ever exceeds its initial value
StockNeverAboveInitial ==
  \A b \in DOMAIN books : books[b].stock_quantity <= InitBooks[b].stock_quantity

====
